---- MODULE Spec2Model ----
(***************************************************************************)
(* Model of class-to-swagger.py: the type-string resolver                  *)
(* (extract_super_type, extract_sub_type, to_property_type) and the record *)
(* assembler (create_swagger_doc, SwaggerDoc.addProperty).                 *)
(*                                                                         *)
(* A Python str is a sequence of one-character strings, so that the        *)
(* regular expressions, str.split, str.lower and re.sub act on characters  *)
(* as they do in the source.  No modelled string holds a line break (the   *)
(* source removes all whitespace before these functions run), so '.'       *)
(* matches every character and '$' only the end of the string.             *)
(***************************************************************************)
EXTENDS Integers, Sequences, FiniteSets, TLC

VARIABLES
    typeString,         \* argument of a direct call of a type-level function
    called,             \* which type-level function the caller invoked
    ret,                \* what that call returned or raised
    written,            \* the record as written: its name and parameters
    case_class_string,  \* argument of create_swagger_doc
    pc,                 \* position inside create_swagger_doc
    split_contents,     \* create_swagger_doc's local list of tokens
    idx,                \* position of the for loop in split_contents
    result,             \* the SwaggerDoc under construction
    raised              \* the exception that ended create_swagger_doc

vars == <<typeString, called, ret, written, case_class_string, pc,
          split_contents, idx, result, raised>>

typeVars == <<typeString, called, ret>>

docVars == <<written, case_class_string, pc, split_contents, idx, result, raised>>

-----------------------------------------------------------------------------
(* Bounds of the checked inputs *)

\* deepest bracket nesting of the generated type strings
MaxNesting == 3

\* longest string over the alphabet {a, [, ]} among the raw type strings
MaxRawLen == 4

\* most parameters of a generated record
MaxParams == 3

-----------------------------------------------------------------------------
(* String literals *)

s_Option == <<"O", "p", "t", "i", "o", "n">>
s_Array == <<"A", "r", "r", "a", "y">>
s_List == <<"L", "i", "s", "t">>
s_ArrayBuffer == <<"A", "r", "r", "a", "y", "B", "u", "f", "f", "e", "r">>
s_String == <<"S", "t", "r", "i", "n", "g">>
s_Char == <<"C", "h", "a", "r">>
s_Boolean == <<"B", "o", "o", "l", "e", "a", "n">>
s_Int == <<"I", "n", "t">>
s_Long == <<"L", "o", "n", "g">>
s_Float == <<"F", "l", "o", "a", "t">>
s_Double == <<"D", "o", "u", "b", "l", "e">>
s_Foo == <<"F", "o", "o">>
s_string == <<"s", "t", "r", "i", "n", "g">>
s_char == <<"c", "h", "a", "r">>
s_boolean == <<"b", "o", "o", "l", "e", "a", "n">>
s_int == <<"i", "n", "t">>
s_long == <<"l", "o", "n", "g">>
s_float == <<"f", "l", "o", "a", "t">>
s_double == <<"d", "o", "u", "b", "l", "e">>
s_integer == <<"i", "n", "t", "e", "g", "e", "r">>
s_number == <<"n", "u", "m", "b", "e", "r">>
s_int32 == <<"i", "n", "t", "3", "2">>
s_int64 == <<"i", "n", "t", "6", "4">>
s_Person == <<"P", "e", "r", "s", "o", "n">>
s_name == <<"n", "a", "m", "e">>
s_age == <<"a", "g", "e">>
s_nickname == <<"n", "i", "c", "k", "n", "a", "m", "e">>
s_email == <<"e", "m", "a", "i", "l">>
s_extra == <<"e", "x", "t", "r", "a">>
s_array == <<"a", "r", "r", "a", "y">>
s_object == <<"o", "b", "j", "e", "c", "t">>

\* Python's None: no str equals it (every element of a str is one character)
None == <<"None">>

\* the outcome of a call: a returned value or a raised exception
Return(v) == [raised |-> FALSE, value |-> v]

Raise(e) == [raised |-> TRUE, exception |-> e]

-----------------------------------------------------------------------------
(* str helpers *)

Max(S) == CHOOSE m \in S : \A n \in S : n <= m

Min(S) == CHOOSE m \in S : \A n \in S : m <= n

\* the positions of character c in s
Positions(s, c) == {i \in 1..Len(s) : s[i] = c}

\* str.lower() on one character
LowerChar(c) ==
    CASE c = "A" -> "a" [] c = "B" -> "b" [] c = "C" -> "c" [] c = "D" -> "d"
      [] c = "E" -> "e" [] c = "F" -> "f" [] c = "G" -> "g" [] c = "H" -> "h"
      [] c = "I" -> "i" [] c = "J" -> "j" [] c = "K" -> "k" [] c = "L" -> "l"
      [] c = "M" -> "m" [] c = "N" -> "n" [] c = "O" -> "o" [] c = "P" -> "p"
      [] c = "Q" -> "q" [] c = "R" -> "r" [] c = "S" -> "s" [] c = "T" -> "t"
      [] c = "U" -> "u" [] c = "V" -> "v" [] c = "W" -> "w" [] c = "X" -> "x"
      [] c = "Y" -> "y" [] c = "Z" -> "z" [] OTHER -> c

\* str.lower()
lower(s) == [i \in 1..Len(s) |-> LowerChar(s[i])]

-----------------------------------------------------------------------------
(* Property types *)

SimplePropertyType(typeName, required) ==
    [cls |-> "SimplePropertyType", type |-> lower(typeName), required |-> required]

\* _class_type_map.get(lower_case_type, {'type': 'number'})
class_type_map(lower_case_type) ==
    CASE lower_case_type = s_int    -> [type |-> s_integer, format |-> s_int32]
      [] lower_case_type = s_long   -> [type |-> s_integer, format |-> s_int64]
      [] lower_case_type = s_float  -> [type |-> s_number, format |-> s_float]
      [] lower_case_type = s_double -> [type |-> s_number, format |-> s_double]
      [] OTHER                      -> [type |-> s_number, format |-> None]

NumberPropertyType(typeName, required) ==
    LET type_and_format == class_type_map(lower(typeName))
    IN  [cls |-> "NumberPropertyType", type |-> type_and_format.type,
         format |-> type_and_format.format, required |-> required]

ArrayPropertyType(items, required) ==
    [cls |-> "ArrayPropertyType", type |-> s_array, items |-> items,
     required |-> required]

ReferencePropertyType(className, required) ==
    [cls |-> "ReferencePropertyType", className |-> className, required |-> required]

-----------------------------------------------------------------------------
(* Type resolver *)

\* the classification made case-insensitive
is_simple_type_any_case(s) == lower(s) \in {s_string, s_char, s_boolean}

is_simple_type(s) == s \in {s_String, s_Char, s_Boolean}

is_number_type(s) == s \in {s_Int, s_Long, s_Float, s_Double}

\* the table of array-like containers without its last entry
isArrayType_without_ArrayBuffer(s) == s \in {s_Array, s_List}

isArrayType(s) == s \in {s_Array, s_List, s_ArrayBuffer}

\* re.search(r'^(.*)\[.*$', s): the greedy group takes the longest prefix that
\* is followed by a '[', so it ends before the LAST '[' of s
extract_super_type(s) ==
    LET opens == Positions(s, "[")
    IN  IF opens = {} THEN None ELSE SubSeq(s, 1, Max(opens) - 1)

\* the pattern without its closing '$': any ']' after a '[' ends the group
extract_sub_type_unanchored(s) ==
    LET closes == Positions(s, "]")
        opens == {i \in Positions(s, "[") : \E j \in closes : j > i}
    IN  IF opens = {} THEN Raise("Exception")
        ELSE Return(SubSeq(s, Max(opens) + 1, Max(closes) - 1))

\* re.search(r'^.*\[(.*)\]$', s): the greedy '.*' runs to the last '[' after
\* which the rest can still end in ']', which must be the last character of s
extract_sub_type(s) ==
    LET opens == {i \in Positions(s, "[") : i < Len(s) /\ s[Len(s)] = "]"}
    IN  IF opens = {} THEN Raise("Exception")
        ELSE Return(SubSeq(s, Max(opens) + 1, Len(s) - 1))

\* the wrapper compared with its lower-case spelling
required_of_lower_case_option(superType) ==
    ~(superType # None /\ superType = lower(s_Option))

\* to_property_type, lines 228-231: required unless the super type is Option
required_of(superType) == ~(superType # None /\ superType = s_Option)

RECURSIVE to_property_type(_)
to_property_type(ts) ==
    LET superType == extract_super_type(ts)
        required == required_of(superType)
        sub == IF superType # None THEN extract_sub_type(ts) ELSE Return(ts)
    IN  IF sub.raised THEN sub
        ELSE LET subType == sub.value
             IN  IF isArrayType(superType)
                 THEN LET listType == extract_sub_type(ts)
                          items == IF listType.raised THEN listType
                                   ELSE to_property_type(listType.value)
                      IN  IF items.raised THEN items
                          ELSE Return(ArrayPropertyType(items.value, required))
                 ELSE IF is_simple_type(subType)
                 THEN Return(SimplePropertyType(subType, required))
                 ELSE IF is_number_type(subType)
                 THEN Return(NumberPropertyType(subType, required))
                 ELSE Return(ReferencePropertyType(subType, required))

-----------------------------------------------------------------------------
(* Record assembler *)

\* the k-th smallest element of a set of positions
Nth(S, k) == CHOOSE i \in S : Cardinality({j \in S : j < i}) = k - 1

\* re.split / str.split on single-character separators: one token between
\* each two neighbouring separators, empty tokens included
split(s, seps) ==
    LET cuts == {i \in 1..Len(s) : s[i] \in seps}
        n == Cardinality(cuts)
        cut(k) == IF k = 0 THEN 0 ELSE IF k = n + 1 THEN Len(s) + 1 ELSE Nth(cuts, k)
    IN  [k \in 1..(n + 1) |-> SubSeq(s, cut(k - 1) + 1, cut(k) - 1)]

\* list.remove(x): drops the FIRST element equal to x, ValueError if there is none
list_remove(l, x) ==
    LET at == {i \in 1..Len(l) : l[i] = x}
    IN  IF at = {} THEN Raise("ValueError")
        ELSE Return(SubSeq(l, 1, Min(at) - 1) \o SubSeq(l, Min(at) + 1, Len(l)))

\* re.sub(r'=.*', '', parameter): everything from the first '=' is removed
strip_default(parameter) ==
    LET eqs == Positions(parameter, "=")
    IN  IF eqs = {} THEN parameter ELSE SubSeq(parameter, 1, Min(eqs) - 1)

SwaggerProperty(pname, ptype, required) ==
    [property_name |-> pname, propertyType |-> ptype, required |-> required]

SwaggerDoc(className) ==
    [type |-> s_object, name |-> className, properties |-> <<>>,
     requiredProperties |-> <<>>]

\* the name appended whether or not the property is required
addProperty_always_required(doc, property) ==
    [doc EXCEPT !.properties = @ \o <<property>>,
                !.requiredProperties = @ \o <<property.property_name>>]

addProperty(doc, property) ==
    [doc EXCEPT !.properties = @ \o <<property>>,
                !.requiredProperties =
                    IF property.required THEN @ \o <<property.property_name>> ELSE @]

\* create_swagger_doc up to the loop: the tokens, the first empty one removed,
\* the first of the rest taken as the class name
split_record(s) ==
    LET removed == list_remove(split(s, {"(", ",", ")"}), <<>>)
    IN  IF removed.raised THEN removed
        ELSE IF Len(removed.value) = 0 THEN Raise("IndexError")
        ELSE Return([doc |-> SwaggerDoc(Head(removed.value)),
                     split_contents |-> Tail(removed.value)])

\* one iteration of create_swagger_doc's loop
add_parameter(doc, parameter) ==
    LET split_parameter == split(strip_default(parameter), {":"})
    IN  IF Len(split_parameter) < 2 THEN Raise("IndexError")
        ELSE LET name == split_parameter[1]
                 propType == to_property_type(split_parameter[2])
             IN  IF propType.raised THEN propType
                 ELSE Return(addProperty(doc,
                          SwaggerProperty(name, propType.value, propType.value.required)))

RECURSIVE add_parameters(_, _, _)
add_parameters(doc, parameters, i) ==
    IF i > Len(parameters) THEN Return(doc)
    ELSE LET step == add_parameter(doc, parameters[i])
         IN  IF step.raised THEN step ELSE add_parameters(step.value, parameters, i + 1)

\* create_swagger_doc as a function of the record text
create_swagger_doc(s) ==
    LET header == split_record(s)
    IN  IF header.raised THEN header
        ELSE add_parameters(header.value.doc, header.value.split_contents, 1)

-----------------------------------------------------------------------------
(* Inputs *)

\* bracket-free identifiers: the recognised type names, an unknown record
\* name and two wrong-case spellings
Leaves == {s_String, s_Char, s_Boolean, s_Int, s_Long, s_Float, s_Double,
           s_Foo, s_string, s_int}

ArrayNames == {s_Array, s_List, s_ArrayBuffer}

Wrappers == ArrayNames \cup {s_Option, s_Foo}

Bracket(w, t) == w \o <<"[">> \o t \o <<"]">>

\* the strings of TypeString := Identifier | Identifier '[' TypeString ']'
\* with at most n levels of brackets
RECURSIVE WellFormed(_)
WellFormed(n) ==
    IF n = 0 THEN Leaves
    ELSE LET inner == WellFormed(n - 1)
         IN  Leaves \cup {Bracket(w, t) : w \in Wrappers, t \in inner}

\* well-formed strings that lost their last character
Truncated == {SubSeq(s, 1, Len(s) - 1) : s \in WellFormed(MaxNesting)}

\* every non-empty string over a three-letter alphabet, up to MaxRawLen
RawStrings == UNION {[1..n -> {"a", "[", "]"}] : n \in 1..MaxRawLen}

\* a wrapper and its opening bracket, nothing after it
Unterminated == {w \o <<"[">> : w \in Wrappers}

TypeStrings == WellFormed(MaxNesting) \cup Truncated \cup Unterminated \cup RawStrings

FieldNames == <<s_name, s_age, s_nickname, s_email, s_extra>>

ParamTypes == {s_String, s_Int, Bracket(s_Option, s_String)}

\* default-value expressions; None: the parameter is written without one
Defaults == {None, <<"0">>, <<"f", "(", "1", ")">>}

ParamChoices == [type : ParamTypes, default : Defaults]

Shapes == {"plain", "trailing_comma", "no_parens"}

\* a record as written: Person(p1,...,pn) with n >= 0, Person(p1,...,pn,)
\* with n >= 1, or Person
Records ==
    {[name |-> s_Person, params |-> ps, shape |-> "plain"] :
        ps \in UNION {[1..n -> ParamChoices] : n \in 0..MaxParams}}
    \cup {[name |-> s_Person, params |-> ps, shape |-> "trailing_comma"] :
        ps \in UNION {[1..n -> ParamChoices] : n \in 1..MaxParams}}
    \cup {[name |-> s_Person, params |-> <<>>, shape |-> "no_parens"]}

RenderParam(k, p) ==
    FieldNames[k] \o <<":">> \o p.type
        \o (IF p.default = None THEN <<>> ELSE <<"=">> \o p.default)

RECURSIVE RenderParams(_, _)
RenderParams(ps, k) ==
    IF k > Len(ps) THEN <<>>
    ELSE RenderParam(k, ps[k])
            \o (IF k < Len(ps) THEN <<",">> ELSE <<>>)
            \o RenderParams(ps, k + 1)

\* the text of a written record, whitespace already removed
Render(w) ==
    CASE w.shape = "no_parens" -> w.name
      [] w.shape = "plain" -> w.name \o <<"(">> \o RenderParams(w.params, 1) \o <<")">>
      [] w.shape = "trailing_comma" ->
            w.name \o <<"(">> \o RenderParams(w.params, 1) \o <<",", ")">>

-----------------------------------------------------------------------------
(* State machine *)

InitType ==
    /\ typeString \in TypeStrings
    /\ called = "none"
    /\ ret = None
    /\ written = None
    /\ case_class_string = <<>>
    /\ pc = "idle"
    /\ split_contents = <<>>
    /\ idx = 0
    /\ result = None
    /\ raised = "none"

InitDoc ==
    /\ typeString = <<>>
    /\ called = "none"
    /\ ret = None
    /\ written \in Records
    /\ case_class_string = Render(written)
    /\ pc = "start"
    /\ split_contents = <<>>
    /\ idx = 0
    /\ result = None
    /\ raised = "none"

Init == InitType \/ InitDoc

CallExtractSuperType ==
    /\ pc = "idle"
    /\ called = "none"
    /\ called' = "extract_super_type"
    /\ ret' = Return(extract_super_type(typeString))
    /\ UNCHANGED <<typeString, docVars>>

CallExtractSubType ==
    /\ pc = "idle"
    /\ called = "none"
    /\ called' = "extract_sub_type"
    /\ ret' = extract_sub_type(typeString)
    /\ UNCHANGED <<typeString, docVars>>

CallToPropertyType ==
    /\ pc = "idle"
    /\ called = "none"
    /\ called' = "to_property_type"
    /\ ret' = to_property_type(typeString)
    /\ UNCHANGED <<typeString, docVars>>

\* create_swagger_doc, lines 267-271
SplitRecord ==
    /\ pc = "start"
    /\ LET header == split_record(case_class_string)
       IN  IF header.raised
           THEN /\ pc' = "raised"
                /\ raised' = header.exception
                /\ UNCHANGED <<split_contents, idx, result>>
           ELSE /\ pc' = "loop"
                /\ split_contents' = header.value.split_contents
                /\ idx' = 1
                /\ result' = header.value.doc
                /\ UNCHANGED raised
    /\ UNCHANGED <<typeVars, written, case_class_string>>

\* create_swagger_doc, one iteration of the loop of lines 273-280
AddParameter ==
    /\ pc = "loop"
    /\ idx <= Len(split_contents)
    /\ LET step == add_parameter(result, split_contents[idx])
       IN  IF step.raised
           THEN /\ pc' = "raised"
                /\ raised' = step.exception
                /\ UNCHANGED <<idx, result>>
           ELSE /\ result' = step.value
                /\ idx' = idx + 1
                /\ UNCHANGED <<pc, raised>>
    /\ UNCHANGED <<typeVars, written, case_class_string, split_contents>>

\* create_swagger_doc, line 282
ReturnDoc ==
    /\ pc = "loop"
    /\ idx > Len(split_contents)
    /\ pc' = "done"
    /\ UNCHANGED <<typeVars, written, case_class_string, split_contents, idx,
                   result, raised>>

Next ==
    \/ CallExtractSuperType
    \/ CallExtractSubType
    \/ CallToPropertyType
    \/ SplitRecord
    \/ AddParameter
    \/ ReturnDoc

Spec == Init /\ [][Next]_vars

-----------------------------------------------------------------------------
(* What the specification says of type strings, stated without the resolver *)

BracketFree(s) == \A i \in 1..Len(s) : s[i] \notin {"[", "]"}

\* s is w[inner] for the identifier w
Wraps(w, s) ==
    /\ Len(s) >= Len(w) + 2
    /\ SubSeq(s, 1, Len(w) + 1) = w \o <<"[">>
    /\ s[Len(s)] = "]"

\* the text between the first '[' of s and its last character
Inside(s) == SubSeq(s, Min(Positions(s, "[")) + 1, Len(s) - 1)

\* the text before the first '[' of s
Outer(s) == SubSeq(s, 1, Min(Positions(s, "[")) - 1)

\* TypeString := Identifier | Identifier '[' TypeString ']'
RECURSIVE IsTypeString(_)
IsTypeString(s) ==
    IF BracketFree(s) THEN Len(s) > 0
    ELSE /\ Positions(s, "[") # {}
         /\ Min(Positions(s, "[")) > 1
         /\ BracketFree(Outer(s))
         /\ s[Len(s)] = "]"
         /\ IsTypeString(Inside(s))

\* the schema type of a leaf identifier, by the fixed tables
LeafSchema(T, req) ==
    CASE T = s_String  -> [cls |-> "SimplePropertyType", type |-> s_string, required |-> req]
      [] T = s_Char    -> [cls |-> "SimplePropertyType", type |-> s_char, required |-> req]
      [] T = s_Boolean -> [cls |-> "SimplePropertyType", type |-> s_boolean, required |-> req]
      [] T = s_Int     -> [cls |-> "NumberPropertyType", type |-> s_integer,
                           format |-> s_int32, required |-> req]
      [] T = s_Long    -> [cls |-> "NumberPropertyType", type |-> s_integer,
                           format |-> s_int64, required |-> req]
      [] T = s_Float   -> [cls |-> "NumberPropertyType", type |-> s_number,
                           format |-> s_float, required |-> req]
      [] T = s_Double  -> [cls |-> "NumberPropertyType", type |-> s_number,
                           format |-> s_double, required |-> req]
      [] OTHER         -> [cls |-> "ReferencePropertyType", className |-> T, required |-> req]

ArrayOf(element, req) ==
    [cls |-> "ArrayPropertyType", type |-> s_array, items |-> element, required |-> req]

\* s is C1[C2[...Cn[T]...]], n >= 1, every Ci array-like and T a leaf identifier
RECURSIVE IsNestedArray(_)
IsNestedArray(s) ==
    /\ \E c \in ArrayNames : Wraps(c, s)
    /\ \/ BracketFree(Inside(s)) /\ Len(Inside(s)) > 0
       \/ IsNestedArray(Inside(s))

\* the nested Array the specification gives for such a string
RECURSIVE NestedArraySchema(_)
NestedArraySchema(s) ==
    IF BracketFree(s) THEN LeafSchema(s, TRUE)
    ELSE ArrayOf(NestedArraySchema(Inside(s)), TRUE)

Resolved == called = "to_property_type"

-----------------------------------------------------------------------------
(* Claims about the type resolver *)

\* C1: for every array-like container C and leaf identifier T,
\* to_property_type("Option[C[T]]") returns an Array whose element is the
\* schema type of T and whose required flag is false.
C1_OptionOfArray ==
    (Resolved /\ Wraps(s_Option, typeString)
        /\ (\E c \in ArrayNames : Wraps(c, Inside(typeString)))
        /\ BracketFree(Inside(Inside(typeString))))
    => /\ ~ret.raised
       /\ ret.value.cls = "ArrayPropertyType"
       /\ ret.value.required = FALSE
       /\ [ret.value.items EXCEPT !.required = TRUE]
              = LeafSchema(Inside(Inside(typeString)), TRUE)

\* C2: for every nesting depth n >= 1 of array-like containers around a leaf
\* identifier T, to_property_type returns an n-level nested Array whose
\* innermost element is the schema type of T.
C2_NestedArrays ==
    (Resolved /\ IsNestedArray(typeString))
    => ret = Return(NestedArraySchema(typeString))

\* C3: for every bracket-free identifier T, to_property_type(T) is required and
\* its variant follows the case-sensitive tables: String, Char, Boolean give
\* Primitive with the lower-cased name, Int, Long, Float, Double give Numeric
\* with their fixed type and format, anything else gives Reference to T.
C3_LeafClassification ==
    (Resolved /\ BracketFree(typeString))
    => ret = Return(LeafSchema(typeString, TRUE))

C3_Witness ==
    /\ Resolved
    /\ typeString = s_string
    /\ ret = Return([cls |-> "ReferencePropertyType", className |-> s_string,
                     required |-> TRUE])

\* C4: for every bracket-free leaf identifier T, to_property_type("Option[T]")
\* is not required and otherwise has the variant and contents of
\* to_property_type(T).
C4_OptionOfLeaf ==
    (Resolved /\ Wraps(s_Option, typeString) /\ BracketFree(Inside(typeString)))
    => /\ ret = Return(LeafSchema(Inside(typeString), FALSE))
       /\ ~to_property_type(Inside(typeString)).raised
       /\ ret.value = [to_property_type(Inside(typeString)).value EXCEPT !.required = FALSE]

C4_Witness ==
    /\ Resolved
    /\ typeString = Bracket(s_Option, s_String)
    /\ ret = Return([cls |-> "SimplePropertyType", type |-> s_string,
                     required |-> FALSE])

\* C5: for every container C in {Array, List, ArrayBuffer} and bracket-free leaf
\* identifier T, to_property_type("C[T]") is a required Array whose element
\* equals to_property_type(T).
C5_ArrayOfLeaf ==
    (Resolved /\ (\E c \in ArrayNames : Wraps(c, typeString))
        /\ BracketFree(Inside(typeString)))
    => /\ ret = Return(ArrayOf(LeafSchema(Inside(typeString), TRUE), TRUE))
       /\ Return(ret.value.items) = to_property_type(Inside(typeString))

C5_Witness ==
    /\ Resolved
    /\ typeString = Bracket(s_List, s_Int)
    /\ ret = Return(ArrayOf([cls |-> "NumberPropertyType", type |-> s_integer,
                             format |-> s_int32, required |-> TRUE], TRUE))

\* C6: to_property_type raises exactly when the string holds a '[' and does not
\* end in the ']' that would close it; it returns a schema type for every
\* bracket-free string and every string of the type-string grammar.
C6_RaisesOnlyWhenUnterminated ==
    Resolved
    => /\ ret.raised <=> (Positions(typeString, "[") # {}
                            /\ typeString[Len(typeString)] # "]")
       /\ ret.raised => ret.exception = "Exception"
       /\ (BracketFree(typeString) \/ IsTypeString(typeString)) => ~ret.raised

C6_Witness ==
    /\ Resolved
    /\ typeString = s_Option \o <<"[">>
    /\ ret = Raise("Exception")

\* C10: for every well-formed type string Identifier '[' TypeString ']',
\* extract_super_type returns the text before the first '[' and
\* extract_sub_type the text between the first '[' and the last ']'.
C10_OutermostBrackets ==
    (IsTypeString(typeString) /\ ~BracketFree(typeString))
    => /\ called = "extract_super_type" => ret = Return(Outer(typeString))
       /\ called = "extract_sub_type" => ret = Return(Inside(typeString))

-----------------------------------------------------------------------------
(* Claims about the record assembler *)

\* create_swagger_doc has built a document (it may since have raised)
HasDoc == pc \in {"loop", "done"} \/ (pc = "raised" /\ idx > 0)

\* how create_swagger_doc ended
Outcome == IF pc = "done" THEN Return(result) ELSE Raise(raised)

\* the schema type the specification gives a parameter's written type
WrittenSchema(type) ==
    IF Wraps(s_Option, type) THEN LeafSchema(Inside(type), FALSE)
    ELSE LeafSchema(type, TRUE)

\* the names of the fields whose type is required, in the fields' order
RequiredNames(properties) ==
    LET kept == SelectSeq(properties, LAMBDA q : q.propertyType.required)
    IN  [k \in 1..Len(kept) |-> kept[k].property_name]

\* Person(name:String,age:Int,nickname:Option[String])
PersonText ==
    <<"P", "e", "r", "s", "o", "n", "(", "n", "a", "m", "e", ":", "S",
      "t", "r", "i", "n", "g", ",", "a", "g", "e", ":", "I", "n", "t",
      ",", "n", "i", "c", "k", "n", "a", "m", "e", ":", "O", "p", "t",
      "i", "o", "n", "[", "S", "t", "r", "i", "n", "g", "]", ")">>

\* the record with every parameter written name:Type
WithoutDefaults(w) ==
    [w EXCEPT !.params = [k \in 1..Len(w.params) |-> [type |-> w.params[k].type,
                                                       default |-> None]]]

\* C7: after every addProperty step of create_swagger_doc the document's fields
\* are in the order the parameters appear in the record text, and
\* requiredProperties is exactly the order-preserving subsequence of the field
\* names whose resolved type is required; the Person example gives fields
\* name, age, nickname and requiredProperties [name, age].
C7_FieldsInOrderRequiredDerived ==
    HasDoc
    => LET properties == result.properties
           n == Len(properties)
       IN  /\ result.name = written.name
           /\ n = idx - 1
           /\ n <= Len(written.params)
           /\ pc = "done" => n = Len(split_contents)
           /\ \A k \in 1..n :
                /\ properties[k].property_name = FieldNames[k]
                /\ properties[k].propertyType = WrittenSchema(written.params[k].type)
                /\ properties[k].required = properties[k].propertyType.required
           /\ result.requiredProperties = RequiredNames(properties)
           /\ (pc = "done" /\ case_class_string = PersonText)
                => /\ result.name = s_Person
                   /\ [k \in 1..n |-> properties[k].property_name]
                          = <<s_name, s_age, s_nickname>>
                   /\ result.requiredProperties = <<s_name, s_age>>

C7_Witness ==
    /\ pc = "done"
    /\ case_class_string = PersonText
    /\ Len(result.properties) = Len(written.params)
    /\ result.requiredProperties = <<s_name, s_age>>

\* C8: a parameter written name:Type=default, for any default-value
\* expression, yields the same fields and the same requiredProperties as the
\* record with that parameter written name:Type.
C8_DefaultsDoNotMatter ==
    pc \in {"done", "raised"}
    => Outcome = create_swagger_doc(Render(WithoutDefaults(written)))

\* C9: every empty token of the split record text is discarded before the
\* tokens are read as parameters: no empty token is processed as a parameter,
\* and a record such as Name() or Name(a:Int,) does not fail on one.
C9_EmptyTokensDiscarded ==
    HasDoc
    => /\ \A k \in 1..Len(split_contents) : split_contents[k] # <<>>
       /\ ~(pc = "raised" /\ idx <= Len(split_contents)
              /\ split_contents[idx] = <<>>)

====
